---- MODULE Spec2Model ----
(***************************************************************************)
(* A model of benchy (src/src/main.rs): a flat sequence of micro-benchmarks *)
(* run by one main thread, each with a fan-out over num_threads work units. *)
(*                                                                         *)
(* The main thread is a sequential process whose position is pc, a pair    *)
(* <<phase, step>>.  The work units of the current fan-out live in unit,   *)
(* one record per index 0 .. num_threads-1.  Whatever the operating system *)
(* can refuse (file and directory operations, pool and thread creation) is *)
(* an action parameter F, the set of outcomes the environment may give:    *)
(* BOOLEAN when operations may fail, {TRUE} when none does.                *)
(*                                                                         *)
(* Sizes: 4 GiB is beyond TLC's integers, so the factor 1024 of the         *)
(* source is the definition Ki, a power of two like 1024, and every size   *)
(* is computed from Ki by the source's own expression; 64 and 4096 are the *)
(* source's.  A random draw over a range is taken from the two ends of the *)
(* range the code passes to random_range.  The iteration counts of the     *)
(* source are scaled down.  Memory allocation is taken to succeed, and the *)
(* target directory is empty when the program starts.                      *)
(***************************************************************************)
EXTENDS Integers, Sequences, FiniteSets, TLC

\* ------------------------------------------------------------ bounds
MaxCpus == 3
MaxThreads == 2

\* ------------------------------------------------------------ constants
Ki == 16
PAD == 64
DIRECT_BLOCK_SIZE == 4096
ATOMIC_BYTES == 8
CPU_FIBONACCI_IT == 10
UNSHARED_SIZE == 2
SHARED_MEMORY_SIZE == 4 * Ki * Ki * Ki
SHARED_MEMORY_ITERATIONS_MUTEX == 2
SHARED_MEMORY_ITERATIONS_ATOMIC == 2
IO_FILE_SIZE == 4 * Ki * Ki * Ki
WRITE_BUF_LEN == Ki * 64
IO_READ_ITERATIONS == 2
FS_ITERATIONS == 2

None == "None"

VARIABLES
    cpus,          \* num_cpus::get(): logical CPUs of the host
    args_threads,  \* Args.threads: None or the value given with --threads
    target_os,     \* the cfg(target_os) the program was built for
    num_threads,   \* main's num_threads
    pool_size,     \* workers of the global rayon pool, 0 before build_global
    pc,            \* main thread's position <<phase, step>>
    i,             \* main thread's loop counter (spawn, join and write loops)
    unit,          \* work units of the current fan-out: [pc, it, x]
    out,           \* lines printed on standard output, in order
    timer,         \* the Instant `start` now running: its label, or None
    mutex,         \* Mutex<Vec<u8>>: [allocated, locked, poisoned, len, mem]
    atomics,       \* Vec<AtomicU64>: [allocated, len, mem]
    fs,            \* the target directory: path (sequence of names) -> file length or "dir"
    wcur,          \* write cursor of the handle File::create returned
    failed_op,     \* the first fatal failure of the run, or None
    ignored,       \* failures of the best-effort cleanups, which the program ignores
    attempted      \* the cleanup deletions the program has called

vars == << cpus, args_threads, target_os, num_threads, pool_size, pc, i, unit,
           out, timer, mutex, atomics, fs, wcur, failed_op, ignored, attempted >>

inputs == << cpus, args_threads, target_os >>

config == << num_threads, pool_size >>

\* ------------------------------------------------------------ helpers
Units == 0 .. (num_threads - 1)

Line(kind, text) == << kind, text >>

Println(kind, text) == Append(out, Line(kind, text))

\* a work unit (idle between fan-outs): position, iterations done, its local value x (offset, index or
\* result), and how often it took the lock (acq) and touched the buffer (acc)
Fresh(n, p) == [t \in 0 .. (n - 1) |-> [pc |-> p, it |-> 0, x |-> 0, acq |-> 0, acc |-> 0]]

Finished(t) == unit[t].pc \in {"done", "panicked"}

AllFinished == \A t \in Units : Finished(t)

AnyPanicked == \E t \in Units : unit[t].pc = "panicked"

\* a unit of a rayon fan-out may start while a pool worker is free
Active == {t \in Units : unit[t].pc \notin {"queued", "done", "panicked"}}

WorkerFree(t) == unit[t].pc # "queued" \/ Cardinality(Active) < pool_size

Running == pc[1] # "exit"

\* the main thread panics: the process ends in failure
Panic(op) ==
    /\ pc' = << "exit", "failed" >>
    /\ failed_op' = IF failed_op = None THEN op ELSE failed_op

\* a unit panics inside a fan-out: the panic is handed to the joiner
UnitPanic(t, op) ==
    /\ unit' = [unit EXCEPT ![t].pc = "panicked"]
    /\ failed_op' = IF failed_op = None THEN op ELSE failed_op

\* Option<usize>: None is the empty sequence, Some(n) the sequence << n >>
NoThreads == << >>

Some(n) == << n >>

\* Option::unwrap_or_else
unwrap_or_else(opt, dflt) == IF opt = NoThreads THEN dflt ELSE opt[1]

\* the draws taken from the closed range lo .. hi: its two ends
Ends(lo, hi) == IF lo > hi THEN {} ELSE {lo, hi}

\* mutant: the upper end of the range is taken as inclusive
random_range_inclusive(lo, hi) == Ends(lo, hi)

\* rng.random_range(lo..hi): a value of the half-open range lo .. hi-1
random_range(lo, hi) == Ends(lo, hi - 1)

\* rng.random_bool(0.5)
random_bool == BOOLEAN

\* rng.random::<u8>()
random_u8 == Ends(0, 255)

\* rng.random::<u64>(): 2^31 - 1, the largest integer TLC holds, stands for u64::MAX
random_u64 == Ends(0, 2147483647)

\* a zero-initialised buffer keeps only its non-zero cells
Load(mem, idx) == IF idx \in DOMAIN mem THEN mem[idx] ELSE 0

Store(mem, idx, v) ==
    LET D == IF v = 0 THEN DOMAIN mem \ {idx} ELSE DOMAIN mem \cup {idx}
    IN  [o \in D |-> IF o = idx THEN v ELSE mem[o]]

RECURSIVE fib(_)
fib(n) == IF n <= 1 THEN n ELSE fib(n - 1) + fib(n - 2)

cpu_work(n) == fib(n)

\* f64 values in tenths: 1.0 is 10, v * 2.5 + 1.2 is (v * 25) \div 10 + 12
memory_test_unshared(size) ==
    LET data == [k \in 1 .. size |-> 10]
        after == [k \in 1 .. size |-> (data[k] * 25) \div 10 + 12]
    IN  after

\* ------------------------------------------------------------ initial state
TypeInit ==
    /\ num_threads = 0
    /\ pool_size = 0
    /\ pc = << "main", "args" >>
    /\ i = 0
    /\ unit = << >>
    /\ out = << >>
    /\ timer = None
    /\ mutex = [allocated |-> FALSE, locked |-> FALSE, poisoned |-> FALSE, len |-> 0, mem |-> << >>]
    /\ atomics = [allocated |-> FALSE, len |-> 0, mem |-> << >>]
    /\ fs = << >>
    /\ wcur = 0
    /\ failed_op = None
    /\ ignored = {}
    /\ attempted = {}

Init ==
    /\ cpus \in 1 .. MaxCpus
    /\ args_threads \in {NoThreads} \cup {Some(n) : n \in 0 .. MaxThreads}
    /\ target_os \in {"linux", "macos", "other"}
    /\ TypeInit

\* ------------------------------------------------------------ main
\* let num_threads = args.threads.unwrap_or_else(|| num_cpus::get() / 2)
Resolve ==
    /\ pc = << "main", "args" >>
    /\ num_threads' = unwrap_or_else(args_threads, cpus \div 2)
    /\ unit' = Fresh(num_threads', "idle")
    /\ pc' = << "main", "pool" >>
    /\ UNCHANGED << inputs, pool_size, i, out, timer,
                    mutex, atomics, fs, wcur, failed_op, ignored, attempted >>

\* ThreadPoolBuilder::new().num_threads(n).build_global().unwrap(); n = 0 asks
\* rayon for its default, one worker per logical CPU
BuildPool(F) ==
    /\ pc = << "main", "pool" >>
    /\ \E ok \in F :
         IF ok
         THEN /\ pool_size' = IF num_threads = 0 THEN cpus ELSE num_threads
              /\ out' = Println("banner", "--- Starting Benchmark")
              /\ pc' = << "cpu", "mono" >>
              /\ UNCHANGED failed_op
         ELSE /\ Panic("build_global")
              /\ UNCHANGED << pool_size, out >>
    /\ UNCHANGED << inputs, num_threads, i, unit, timer,
                    mutex, atomics, fs, wcur, ignored, attempted >>

\* ------------------------------------------------------------ bench_section
SectionName(sec) ==
    IF sec = "cpu" THEN "CPU Bound (Fibonacci)" ELSE "Memory Bandwidth (non-shared)"

SectionNext(sec) ==
    IF sec = "cpu" THEN << "mem", "mono" >> ELSE << "mutex", "alloc" >>

\* the closure main passes: its result is dropped, x keeps it for inspection
SectionWork(sec) ==
    IF sec = "cpu" THEN cpu_work(CPU_FIBONACCI_IT)
    ELSE memory_test_unshared(UNSHARED_SIZE)[UNSHARED_SIZE]

\* println header; start; f(); println Mono-thread
BenchMono(sec) ==
    /\ pc = << sec, "mono" >>
    /\ SectionWork(sec) >= 0
    /\ out' = out \o << Line("header", SectionName(sec)), Line("timing", "Mono-thread") >>
    /\ pc' = << sec, "fan" >>
    /\ UNCHANGED << inputs, config, i, unit,
                    timer, mutex, atomics, fs, wcur, failed_op, ignored, attempted >>

\* start; (0..threads).into_par_iter().for_each(...): one unit per index
BenchFanOut(sec) ==
    /\ pc = << sec, "fan" >>
    /\ timer' = "Multi-thread"
    /\ unit' = Fresh(num_threads, "queued")
    /\ pc' = << sec, "join" >>
    /\ UNCHANGED << inputs, config, i, out,
                    mutex, atomics, fs, wcur, failed_op, ignored, attempted >>

\* |_| f() on a pool worker
BenchUnit(sec, t) ==
    /\ pc = << sec, "join" >>
    /\ unit[t].pc = "queued"
    /\ WorkerFree(t)
    /\ unit' = [unit EXCEPT ![t].pc = "done", ![t].it = 1, ![t].x = SectionWork(sec)]
    /\ UNCHANGED << inputs, config, pc, i, out,
                    timer, mutex, atomics, fs, wcur, failed_op, ignored, attempted >>

\* for_each returns once every unit has run; println Multi-thread
BenchJoin(sec) ==
    /\ pc = << sec, "join" >>
    /\ AllFinished
    /\ out' = Println("timing", "Multi-thread")
    /\ timer' = None
    /\ unit' = Fresh(num_threads, "idle")
    /\ pc' = SectionNext(sec)
    /\ UNCHANGED << inputs, config, i,
                    mutex, atomics, fs, wcur, failed_op, ignored, attempted >>

bench_section(sec) ==
    \/ BenchMono(sec)
    \/ BenchFanOut(sec)
    \/ \E t \in Units : BenchUnit(sec, t)
    \/ BenchJoin(sec)

\* ------------------------------------------------------------ thread::spawn / join
EmptyMutex == [allocated |-> FALSE, locked |-> FALSE, poisoned |-> FALSE, len |-> 0, mem |-> << >>]

EmptyAtomics == [allocated |-> FALSE, len |-> 0, mem |-> << >>]

Iterations(ph) ==
    IF ph = "mutex" THEN SHARED_MEMORY_ITERATIONS_MUTEX ELSE SHARED_MEMORY_ITERATIONS_ATOMIC

\* for _t in 0..num_threads { handles.push(thread::spawn(...)) }
Spawn(ph, F) ==
    /\ pc = << ph, "spawn" >>
    /\ i < num_threads
    /\ \E ok \in F :
         IF ok
         THEN /\ unit' = [unit EXCEPT ![i].pc = IF Iterations(ph) = 0 THEN "done" ELSE "loop"]
              /\ i' = IF i + 1 = num_threads THEN 0 ELSE i + 1
              /\ pc' = IF i + 1 = num_threads THEN << ph, "join" >> ELSE pc
              /\ UNCHANGED failed_op
         ELSE /\ Panic("spawn")
              /\ UNCHANGED << unit, i >>
    /\ UNCHANGED << inputs, config, out, timer, mutex, atomics, fs, wcur, ignored, attempted >>

\* mutant: the handles are passed over without waiting for their threads
Join_detached(ph) ==
    /\ pc = << ph, "join" >>
    /\ i < num_threads
    /\ IF unit[i].pc = "panicked"
       THEN Panic("join") /\ UNCHANGED i
       ELSE i' = i + 1 /\ UNCHANGED << pc, failed_op >>
    /\ UNCHANGED << inputs, config, unit, out, timer, mutex, atomics, fs, wcur, ignored, attempted >>

\* for handle in handles { handle.join().unwrap(); }
Join(ph) ==
    /\ pc = << ph, "join" >>
    /\ i < num_threads
    /\ Finished(i)
    /\ IF unit[i].pc = "panicked"
       THEN Panic("join") /\ UNCHANGED i
       ELSE i' = i + 1 /\ UNCHANGED << pc, failed_op >>
    /\ UNCHANGED << inputs, config, unit, out, timer, mutex, atomics, fs, wcur, ignored, attempted >>

\* ------------------------------------------------------------ memory_test_mutex
\* mutant: the buffer is not yet allocated when the benchmark goes on
MutexAlloc_lazy ==
    /\ pc = << "mutex", "alloc" >>
    /\ out' = out \o << Line("header", "Memory shared access (mutex)"), Line("marker", "Allocating") >>
    /\ pc' = << "mutex", "start" >>
    /\ UNCHANGED << inputs, config, i, unit, timer, mutex, atomics, fs, wcur, failed_op, ignored, attempted >>

\* println header, "Allocating"; Arc::new(Mutex::new(vec![0u8; SHARED_MEMORY_SIZE]))
MutexAlloc ==
    /\ pc = << "mutex", "alloc" >>
    /\ out' = out \o << Line("header", "Memory shared access (mutex)"), Line("marker", "Allocating") >>
    /\ mutex' = [EmptyMutex EXCEPT !.allocated = TRUE, !.len = SHARED_MEMORY_SIZE]
    /\ pc' = << "mutex", "start" >>
    /\ UNCHANGED << inputs, config, i, unit, timer, atomics, fs, wcur, failed_op, ignored, attempted >>

\* let start = Instant::now(); println "Starting"
MutexStart ==
    /\ pc = << "mutex", "start" >>
    /\ timer' = "Memory shared access (mutex)"
    /\ out' = Println("marker", "Starting")
    /\ unit' = Fresh(num_threads, "unspawned")
    /\ i' = 0
    /\ pc' = IF num_threads = 0 THEN << "mutex", "join" >> ELSE << "mutex", "spawn" >>
    /\ UNCHANGED << inputs, config, mutex, atomics, fs, wcur, failed_op, ignored, attempted >>

\* mutant: the buffer is entered without waiting for the lock to be free
MutexLock_unguarded(t) ==
    /\ Running
    /\ pc[1] = "mutex"
    /\ unit[t].pc = "loop"
    /\ \E idx \in Ends(0, SHARED_MEMORY_SIZE - PAD - 1) :
         /\ mutex' = [mutex EXCEPT !.locked = TRUE]
         /\ unit' = [unit EXCEPT ![t].pc = "locked", ![t].x = idx, ![t].acq = @ + 1]
    /\ UNCHANGED << inputs, config, pc, i, out, timer, atomics, fs, wcur, failed_op, ignored, attempted >>

\* idx = rng.random_range(0..SHARED_MEMORY_SIZE - 64); shared_data.lock().unwrap().
\* The draw is local to the worker, so it is taken in the step that gets the lock.
MutexLock(t) ==
    /\ Running
    /\ pc[1] = "mutex"
    /\ unit[t].pc = "loop"
    /\ ~mutex.locked
    /\ \E idx \in random_range(0, SHARED_MEMORY_SIZE - PAD) :
         IF mutex.poisoned
         THEN UnitPanic(t, "lock") /\ UNCHANGED mutex
         ELSE /\ mutex' = [mutex EXCEPT !.locked = TRUE]
              /\ unit' = [unit EXCEPT ![t].pc = "locked", ![t].x = idx, ![t].acq = @ + 1]
              /\ UNCHANGED failed_op
    /\ UNCHANGED << inputs, config, pc, i, out, timer, atomics, fs, wcur, ignored, attempted >>

\* if rng.random_bool(0.5) { mem[idx] = rng.random() } else { let _val = mem[idx] };
\* an index outside the vector panics with the guard held, which poisons the lock
MutexAccess(t) ==
    /\ Running
    /\ pc[1] = "mutex"
    /\ unit[t].pc = "locked"
    /\ IF unit[t].x >= mutex.len
       THEN /\ mutex' = [mutex EXCEPT !.locked = FALSE, !.poisoned = TRUE]
            /\ UnitPanic(t, "index")
       ELSE /\ \E w \in random_bool :
                 IF w
                 THEN \E v \in random_u8 : mutex' = [mutex EXCEPT !.mem = Store(@, unit[t].x, v)]
                 ELSE Load(mutex.mem, unit[t].x) >= 0 /\ UNCHANGED mutex
            /\ unit' = [unit EXCEPT ![t].pc = "accessed", ![t].acc = @ + 1]
            /\ UNCHANGED failed_op
    /\ UNCHANGED << inputs, config, pc, i, out, timer, atomics, fs, wcur, ignored, attempted >>

\* the guard `mem` and idx go out of scope at the end of the loop body
MutexUnlock(t) ==
    /\ Running
    /\ pc[1] = "mutex"
    /\ unit[t].pc = "accessed"
    /\ mutex' = [mutex EXCEPT !.locked = FALSE]
    /\ unit' = [unit EXCEPT ![t].it = @ + 1, ![t].x = 0,
                            ![t].pc = IF unit[t].it + 1 = SHARED_MEMORY_ITERATIONS_MUTEX
                                      THEN "done" ELSE "loop"]
    /\ UNCHANGED << inputs, config, pc, i, out, timer, atomics, fs, wcur, failed_op, ignored, attempted >>

\* println elapsed; `data` is dropped when the function returns
MutexPrint ==
    /\ pc = << "mutex", "join" >>
    /\ i = num_threads
    /\ out' = Println("timing", "Memory shared access (mutex)")
    /\ timer' = None
    /\ mutex' = EmptyMutex
    /\ i' = 0
    /\ unit' = Fresh(num_threads, "idle")
    /\ pc' = << "atomic", "alloc" >>
    /\ UNCHANGED << inputs, config, atomics, fs, wcur, failed_op, ignored, attempted >>

memory_test_mutex(F) ==
    \/ MutexAlloc
    \/ MutexStart
    \/ Spawn("mutex", F)
    \/ \E t \in Units : MutexLock(t)
    \/ \E t \in Units : MutexAccess(t)
    \/ \E t \in Units : MutexUnlock(t)
    \/ Join("mutex")
    \/ MutexPrint

\* ------------------------------------------------------------ memory_test_atomic
\* let num_elements = SHARED_MEMORY_SIZE / 8
num_elements == SHARED_MEMORY_SIZE \div ATOMIC_BYTES

\* println header, "Allocating"; alloc_zeroed(SHARED_MEMORY_SIZE, align 4096) as
\* a Vec<AtomicU64> of num_elements cells
AtomicAlloc ==
    /\ pc = << "atomic", "alloc" >>
    /\ out' = out \o << Line("header", "Memory shared access (atomic)"), Line("marker", "Allocating") >>
    /\ atomics' = [EmptyAtomics EXCEPT !.allocated = TRUE, !.len = num_elements]
    /\ pc' = << "atomic", "start" >>
    /\ UNCHANGED << inputs, config, i, unit, timer, mutex, fs, wcur, failed_op, ignored, attempted >>

\* println "Starting"; let start = Instant::now()
AtomicStart ==
    /\ pc = << "atomic", "start" >>
    /\ out' = Println("marker", "Starting")
    /\ timer' = "Memory shared access (atomic)"
    /\ unit' = Fresh(num_threads, "unspawned")
    /\ i' = 0
    /\ pc' = IF num_threads = 0 THEN << "atomic", "join" >> ELSE << "atomic", "spawn" >>
    /\ UNCHANGED << inputs, config, mutex, atomics, fs, wcur, failed_op, ignored, attempted >>

\* one iteration: idx = rng.random_range(0..num_elements); a Relaxed store of a
\* random u64 or a Relaxed load, each one indivisible access to the cell;
\* x keeps the index of the last access
AtomicOp(t) ==
    /\ Running
    /\ pc[1] = "atomic"
    /\ unit[t].pc = "loop"
    /\ \E idx \in random_range(0, num_elements) :
         IF idx >= atomics.len
         THEN UnitPanic(t, "index") /\ UNCHANGED atomics
         ELSE /\ \E w \in random_bool :
                   IF w
                   THEN \E v \in random_u64 : atomics' = [atomics EXCEPT !.mem = Store(@, idx, v)]
                   ELSE Load(atomics.mem, idx) >= 0 /\ UNCHANGED atomics
              /\ unit' = [unit EXCEPT ![t].it = @ + 1, ![t].x = idx, ![t].acc = @ + 1,
                                      ![t].pc = IF unit[t].it + 1 = SHARED_MEMORY_ITERATIONS_ATOMIC
                                                THEN "done" ELSE "loop"]
              /\ UNCHANGED failed_op
    /\ UNCHANGED << inputs, config, pc, i, out, timer, mutex, fs, wcur, ignored, attempted >>

\* println elapsed
AtomicPrint ==
    /\ pc = << "atomic", "join" >>
    /\ i = num_threads
    /\ out' = Println("timing", "Memory shared access (atomic)")
    /\ timer' = None
    /\ i' = 0
    /\ unit' = Fresh(num_threads, "idle")
    /\ pc' = << "atomic", "drop" >>
    /\ UNCHANGED << inputs, config, mutex, atomics, fs, wcur, failed_op, ignored, attempted >>

\* `data` is dropped when the function returns.  The Vec frees with the layout
\* of AtomicU64 (align 8) a block that was allocated with align 4096, which the
\* allocator contract forbids.  The system allocator of linux and macos frees
\* the pointer whatever the layout says; an allocator that keeps a header for
\* over-aligned blocks (the fallback targets include such) is handed a pointer
\* it never returned, and the process may go on or be ended by the heap check.
AtomicDrop(F) ==
    /\ pc = << "atomic", "drop" >>
    /\ \E ok \in F :
         IF ok \/ target_os # "other"
         THEN /\ atomics' = EmptyAtomics
              /\ pc' = << "io", "create" >>
              /\ UNCHANGED failed_op
         ELSE /\ Panic("dealloc")
              /\ UNCHANGED atomics
    /\ UNCHANGED << inputs, config, i, unit, out, timer, mutex, fs, wcur, ignored, attempted >>

memory_test_atomic(F) ==
    \/ AtomicAlloc
    \/ AtomicStart
    \/ Spawn("atomic", F)
    \/ \E t \in Units : AtomicOp(t)
    \/ Join("atomic")
    \/ AtomicPrint
    \/ AtomicDrop(F)

\* ------------------------------------------------------------ the target directory
\* args.dir itself is the empty path and exists; fs maps every path below it
Dir == [kind |-> "dir", len |-> 0]

RegularFile(n) == [kind |-> "file", len |-> n]

Exists(p) == p \in DOMAIN fs

IsDir(p) == p = << >> \/ (Exists(p) /\ fs[p].kind = "dir")

IsFile(p) == Exists(p) /\ fs[p].kind = "file"

Parent(p) == SubSeq(p, 1, Len(p) - 1)

Under(p, d) == Len(p) > Len(d) /\ SubSeq(p, 1, Len(d)) = d

\* Path::join
join(path, name) == Append(path, name)

Put(tree, p, e) == [q \in DOMAIN tree \cup {p} |-> IF q = p THEN e ELSE tree[q]]

Del(tree, gone) == [q \in DOMAIN tree \ gone |-> tree[q]]

\* File::create: a new empty file, or the old one cut to length 0
CanCreate(p) == IsDir(Parent(p)) /\ ~IsDir(p)

\* fs::create_dir: the directory must not exist yet
CanCreateDir(p) == IsDir(Parent(p)) /\ ~Exists(p)

\* fs::create_dir_all: an existing directory is accepted
CanCreateDirAll(p) == IsDir(Parent(p)) /\ ~IsFile(p)

\* ------------------------------------------------------------ io_benchmarks
file_path == join(<< >>, "bench_large.bin")

\* mutant: the number of positions is rounded up past the end of the file
valid_positions_past_end == IO_FILE_SIZE \div DIRECT_BLOCK_SIZE + 1

\* size / DIRECT_BLOCK_SIZE
valid_positions == IO_FILE_SIZE \div DIRECT_BLOCK_SIZE

\* println header; start; File::create(&file_path).unwrap()
IoCreate(F) ==
    /\ pc = << "io", "create" >>
    /\ \E ok \in F :
         IF ok /\ CanCreate(file_path)
         THEN /\ fs' = Put(fs, file_path, RegularFile(0))
              /\ wcur' = 0
              /\ i' = 0
              /\ out' = Println("header", "IO Performance")
              /\ timer' = "Sequential Write (Mono)"
              /\ pc' = << "io", "write" >>
              /\ UNCHANGED failed_op
         ELSE /\ Panic("create")
              /\ out' = Println("header", "IO Performance")
              /\ UNCHANGED << fs, wcur, i, timer >>
    /\ UNCHANGED << inputs, config, unit, mutex, atomics, ignored, attempted >>

\* mutant: the result of write_all is dropped instead of unwrapped
IoWrite_unchecked(F) ==
    /\ pc = << "io", "write" >>
    /\ i < IO_FILE_SIZE \div WRITE_BUF_LEN
    /\ \E ok \in F :
         IF ok /\ IsFile(file_path)
         THEN /\ fs' = [fs EXCEPT ![file_path].len =
                            IF wcur + WRITE_BUF_LEN > @ THEN wcur + WRITE_BUF_LEN ELSE @]
              /\ wcur' = wcur + WRITE_BUF_LEN
              /\ UNCHANGED failed_op
         ELSE /\ failed_op' = IF failed_op = None THEN "write" ELSE failed_op
              /\ UNCHANGED << fs, wcur >>
    /\ i' = i + 1
    /\ UNCHANGED << inputs, config, pc, unit, out, timer, mutex, atomics, ignored, attempted >>

\* for _ in 0..(size / buf.len()) { f.write_all(&buf).unwrap(); }
IoWrite(F) ==
    /\ pc = << "io", "write" >>
    /\ i < IO_FILE_SIZE \div WRITE_BUF_LEN
    /\ \E ok \in F :
         IF ok /\ IsFile(file_path)
         THEN /\ fs' = [fs EXCEPT ![file_path].len =
                            IF wcur + WRITE_BUF_LEN > @ THEN wcur + WRITE_BUF_LEN ELSE @]
              /\ wcur' = wcur + WRITE_BUF_LEN
              /\ i' = i + 1
              /\ UNCHANGED << pc, failed_op >>
         ELSE /\ Panic("write")
              /\ UNCHANGED << fs, wcur, i >>
    /\ UNCHANGED << inputs, config, unit, out, timer, mutex, atomics, ignored, attempted >>

\* the file is closed; println Sequential Write
IoWritten ==
    /\ pc = << "io", "write" >>
    /\ i = IO_FILE_SIZE \div WRITE_BUF_LEN
    /\ out' = Println("timing", "Sequential Write (Mono)")
    /\ timer' = None
    /\ i' = 0
    /\ pc' = << "io", "fan" >>
    /\ UNCHANGED << inputs, config, unit, mutex, atomics, fs, wcur, failed_op, ignored, attempted >>

\* start; (0..threads).into_par_iter().for_each(...)
IoFanOut ==
    /\ pc = << "io", "fan" >>
    /\ timer' = "Random Read Direct (Multi)"
    /\ unit' = Fresh(num_threads, "queued")
    /\ pc' = << "io", "join" >>
    /\ UNCHANGED << inputs, config, i, out, mutex, atomics, fs, wcur, failed_op, ignored, attempted >>

\* open_with_direct_io(&file_path).unwrap(): read, write, create(true).  Linux and
\* the fallback return the result of open; macos unwraps it, then turns caching
\* off with fcntl, printing "fcntl failed" and returning the error when it fails
IoOpen(t, F) ==
    /\ pc = << "io", "join" >>
    /\ unit[t].pc = "queued"
    /\ WorkerFree(t)
    /\ \E ok \in F, nocache \in F :
         IF ~(ok /\ CanCreate(file_path))
         THEN UnitPanic(t, "open") /\ UNCHANGED << fs, out >>
         ELSE /\ fs' = IF Exists(file_path) THEN fs ELSE Put(fs, file_path, RegularFile(0))
              /\ IF target_os = "macos" /\ ~nocache
                 THEN /\ out' = Println("error", "fcntl failed")
                      /\ UnitPanic(t, "fcntl")
                 ELSE /\ unit' = [unit EXCEPT ![t].x = 0,
                                    ![t].pc = IF IO_READ_ITERATIONS = 0 THEN "done" ELSE "loop"]
                      /\ UNCHANGED << out, failed_op >>
    /\ UNCHANGED << inputs, config, pc, i, timer, mutex, atomics, wcur, ignored, attempted >>

\* one iteration: pos = rng.random_range(0..valid_positions);
\* f.seek(SeekFrom::Start(pos * DIRECT_BLOCK_SIZE)).unwrap(); f.read_exact(&mut buf).unwrap().
\* read_exact fails ("eof") when fewer than DIRECT_BLOCK_SIZE bytes lie after the cursor.
\* x is the offset the block was read at, acc the number of blocks read.
IoRead(t, F) ==
    /\ pc = << "io", "join" >>
    /\ unit[t].pc = "loop"
    /\ \E pos \in random_range(0, valid_positions), sought \in F, got \in F :
         LET off == pos * DIRECT_BLOCK_SIZE
         IN  IF ~sought
             THEN UnitPanic(t, "seek")
             ELSE IF ~got
             THEN UnitPanic(t, "read")
             ELSE IF ~IsFile(file_path) \/ off + DIRECT_BLOCK_SIZE > fs[file_path].len
             THEN UnitPanic(t, "eof")
             ELSE /\ unit' = [unit EXCEPT ![t].x = off, ![t].acc = @ + 1, ![t].it = @ + 1,
                                ![t].pc = IF unit[t].it + 1 = IO_READ_ITERATIONS
                                          THEN "done" ELSE "loop"]
                  /\ UNCHANGED failed_op
    /\ UNCHANGED << inputs, config, pc, i, out, timer, mutex, atomics, fs, wcur, ignored, attempted >>

\* for_each returns when every unit has ended and hands on a unit's panic;
\* otherwise println Random Read
IoJoin ==
    /\ pc = << "io", "join" >>
    /\ AllFinished
    /\ IF AnyPanicked
       THEN Panic("for_each") /\ UNCHANGED << out, timer, unit >>
       ELSE /\ out' = Println("timing", "Random Read Direct (Multi)")
            /\ timer' = None
            /\ unit' = Fresh(num_threads, "idle")
            /\ pc' = << "io", "remove" >>
            /\ UNCHANGED failed_op
    /\ UNCHANGED << inputs, config, i, mutex, atomics, fs, wcur, ignored, attempted >>

\* mutant: the function returns without the cleanup
IoRemove_skipped(F) ==
    /\ pc = << "io", "remove" >>
    /\ F # {}
    /\ pc' = << "fs", "base" >>
    /\ UNCHANGED << inputs, config, i, unit, out, timer, mutex, atomics, fs, wcur,
                    failed_op, ignored, attempted >>

\* let _ = fs::remove_file(file_path)
IoRemove(F) ==
    /\ pc = << "io", "remove" >>
    /\ attempted' = attempted \cup {"cleanup_file"}
    /\ \E ok \in F :
         IF ok /\ IsFile(file_path)
         THEN fs' = Del(fs, {file_path}) /\ UNCHANGED ignored
         ELSE ignored' = ignored \cup {"cleanup_file"} /\ UNCHANGED fs
    /\ pc' = << "fs", "base" >>
    /\ UNCHANGED << inputs, config, i, unit, out, timer, mutex, atomics, wcur, failed_op >>

io_benchmarks(F) ==
    \/ IoCreate(F)
    \/ IoWrite(F)
    \/ IoWritten
    \/ IoFanOut
    \/ \E t \in Units : IoOpen(t, F)
    \/ \E t \in Units : IoRead(t, F)
    \/ IoJoin
    \/ IoRemove(F)

\* ------------------------------------------------------------ fs_benchmarks
base == join(<< >>, "fs_test")

\* mutant: the index is left out of the name
thread_dir_shared(t) == join(join(<< >>, "fs_test"), "t_")

\* base.join(format!("t_{}", t))
thread_dir(t) == join(base, "t_" \o ToString(t))

\* thread_dir.join(format!("{}.txt", i))
f_path(t, k) == join(thread_dir(t), ToString(k) \o ".txt")

\* println header; fs::create_dir_all(&base).unwrap()
FsBase(F) ==
    /\ pc = << "fs", "base" >>
    /\ out' = Println("header", "Filesystem Metadata")
    /\ \E ok \in F :
         IF ok /\ CanCreateDirAll(base)
         THEN /\ fs' = IF Exists(base) THEN fs ELSE Put(fs, base, Dir)
              /\ pc' = << "fs", "fan" >>
              /\ UNCHANGED failed_op
         ELSE Panic("create_dir_all") /\ UNCHANGED fs
    /\ UNCHANGED << inputs, config, i, unit, timer, mutex, atomics, wcur, ignored, attempted >>

\* start; (0..threads).into_par_iter().for_each(|t| ...)
FsFanOut ==
    /\ pc = << "fs", "fan" >>
    /\ timer' = "Create/Delete files/thread"
    /\ unit' = Fresh(num_threads, "queued")
    /\ pc' = << "fs", "join" >>
    /\ UNCHANGED << inputs, config, i, out, mutex, atomics, fs, wcur, failed_op, ignored, attempted >>

\* fs::create_dir(&thread_dir).unwrap()
FsMkdir(t, F) ==
    /\ pc = << "fs", "join" >>
    /\ unit[t].pc = "queued"
    /\ WorkerFree(t)
    /\ \E ok \in F :
         IF ok /\ CanCreateDir(thread_dir(t))
         THEN /\ fs' = Put(fs, thread_dir(t), Dir)
              /\ unit' = [unit EXCEPT ![t].pc = IF FS_ITERATIONS = 0 THEN "done" ELSE "create"]
              /\ UNCHANGED failed_op
         ELSE UnitPanic(t, "create_dir") /\ UNCHANGED fs
    /\ UNCHANGED << inputs, config, pc, i, out, timer, mutex, atomics, wcur, ignored, attempted >>

\* File::create(&f_path).unwrap(), for the file numbered by the loop counter
FsCreate(t, F) ==
    /\ pc = << "fs", "join" >>
    /\ unit[t].pc = "create"
    /\ \E ok \in F :
         IF ok /\ CanCreate(f_path(t, unit[t].it))
         THEN /\ fs' = Put(fs, f_path(t, unit[t].it), RegularFile(0))
              /\ unit' = [unit EXCEPT ![t].pc = "remove", ![t].acq = @ + 1]
              /\ UNCHANGED failed_op
         ELSE UnitPanic(t, "create_file") /\ UNCHANGED fs
    /\ UNCHANGED << inputs, config, pc, i, out, timer, mutex, atomics, wcur, ignored, attempted >>

\* mutant: the file is left behind
FsRemove_kept(t, F) ==
    /\ pc = << "fs", "join" >>
    /\ unit[t].pc = "remove"
    /\ \E ok \in F :
         IF ok /\ IsFile(join(join(join(<< >>, "fs_test"), "t_" \o ToString(t)), ToString(unit[t].it) \o ".txt"))
         THEN /\ unit' = [unit EXCEPT ![t].it = @ + 1, ![t].acc = @ + 1,
                                      ![t].pc = IF unit[t].it + 1 = FS_ITERATIONS
                                                THEN "done" ELSE "create"]
              /\ UNCHANGED failed_op
         ELSE UnitPanic(t, "remove_file")
    /\ UNCHANGED << inputs, config, pc, i, out, timer, mutex, atomics, fs, wcur, ignored, attempted >>

\* fs::remove_file(&f_path).unwrap()
FsRemove(t, F) ==
    /\ pc = << "fs", "join" >>
    /\ unit[t].pc = "remove"
    /\ \E ok \in F :
         IF ok /\ IsFile(f_path(t, unit[t].it))
         THEN /\ fs' = Del(fs, {f_path(t, unit[t].it)})
              /\ unit' = [unit EXCEPT ![t].it = @ + 1, ![t].acc = @ + 1,
                                      ![t].pc = IF unit[t].it + 1 = FS_ITERATIONS
                                                THEN "done" ELSE "create"]
              /\ UNCHANGED failed_op
         ELSE UnitPanic(t, "remove_file") /\ UNCHANGED fs
    /\ UNCHANGED << inputs, config, pc, i, out, timer, mutex, atomics, wcur, ignored, attempted >>

\* for_each returns when every unit has ended and hands on a unit's panic;
\* otherwise println Create/Delete
FsJoin ==
    /\ pc = << "fs", "join" >>
    /\ AllFinished
    /\ IF AnyPanicked
       THEN Panic("for_each") /\ UNCHANGED << out, timer, unit >>
       ELSE /\ out' = Println("timing", "Create/Delete files/thread")
            /\ timer' = None
            /\ unit' = Fresh(num_threads, "idle")
            /\ pc' = << "fs", "cleanup" >>
            /\ UNCHANGED failed_op
    /\ UNCHANGED << inputs, config, i, mutex, atomics, fs, wcur, ignored, attempted >>

\* let _ = fs::remove_dir_all(base); main returns
FsCleanup(F) ==
    /\ pc = << "fs", "cleanup" >>
    /\ attempted' = attempted \cup {"cleanup_tree"}
    /\ \E ok \in F :
         IF ok /\ IsDir(base)
         THEN fs' = Del(fs, {q \in DOMAIN fs : q = base \/ Under(q, base)}) /\ UNCHANGED ignored
         ELSE ignored' = ignored \cup {"cleanup_tree"} /\ UNCHANGED fs
    /\ pc' = << "exit", "done" >>
    /\ UNCHANGED << inputs, config, i, unit, out, timer, mutex, atomics, wcur, failed_op >>

fs_benchmarks(F) ==
    \/ FsBase(F)
    \/ FsFanOut
    \/ \E t \in Units : FsMkdir(t, F)
    \/ \E t \in Units : FsCreate(t, F)
    \/ \E t \in Units : FsRemove(t, F)
    \/ FsJoin
    \/ FsCleanup(F)

Run(F) ==
    \/ Resolve
    \/ BuildPool(F)
    \/ bench_section("cpu")
    \/ bench_section("mem")
    \/ memory_test_mutex(F)
    \/ memory_test_atomic(F)
    \/ io_benchmarks(F)
    \/ fs_benchmarks(F)

\* every operation may fail
Next == Run(BOOLEAN)

Spec == Init /\ [][Next]_vars

\* ------------------------------------------------------------ the end-to-end run
\* --threads 4 on an empty writable directory, no operation failing; with
\* --threads given the CPU count is not read, so one host stands for all
InitE2E ==
    /\ cpus = MaxCpus
    /\ args_threads = Some(4)
    /\ target_os \in {"linux", "macos", "other"}
    /\ TypeInit

NextE2E == Run({TRUE})

\* the steps of the main thread, and those of work unit t
MainStep(F) ==
    \/ Resolve
    \/ BuildPool(F)
    \/ \E sec \in {"cpu", "mem"} : BenchMono(sec) \/ BenchFanOut(sec) \/ BenchJoin(sec)
    \/ MutexAlloc \/ MutexStart \/ MutexPrint
    \/ AtomicAlloc \/ AtomicStart \/ AtomicPrint \/ AtomicDrop(F)
    \/ \E ph \in {"mutex", "atomic"} : Spawn(ph, F) \/ Join(ph)
    \/ IoCreate(F) \/ IoWrite(F) \/ IoWritten \/ IoFanOut \/ IoJoin \/ IoRemove(F)
    \/ FsBase(F) \/ FsFanOut \/ FsJoin \/ FsCleanup(F)

UnitStep(t, F) ==
    \/ \E sec \in {"cpu", "mem"} : BenchUnit(sec, t)
    \/ MutexLock(t) \/ MutexAccess(t) \/ MutexUnlock(t)
    \/ AtomicOp(t)
    \/ IoOpen(t, F) \/ IoRead(t, F)
    \/ FsMkdir(t, F) \/ FsCreate(t, F) \/ FsRemove(t, F)

\* the operating system schedules every thread that can run: the main thread and
\* each work unit keep taking steps while they are able to
SpecE2E ==
    /\ InitE2E
    /\ [][NextE2E]_vars
    /\ WF_vars(MainStep({TRUE}))
    /\ \A t \in 0 .. 3 : WF_vars(t \in Units /\ UnitStep(t, {TRUE}))

\* ------------------------------------------------------------ properties
Count(kind) == Len(SelectSeq(out, LAMBDA l : l[1] = kind))

Printed(kind, text) == \E k \in 1 .. Len(out) : out[k] = Line(kind, text)

Done == pc = << "exit", "done" >>

Failed == pc = << "exit", "failed" >>

Max(a, b) == IF a >= b THEN a ELSE b

ParallelTimings ==
    {"Multi-thread", "Memory shared access (mutex)", "Memory shared access (atomic)",
     "Random Read Direct (Multi)", "Create/Delete files/thread"}

\* the iterations one work unit of the phase runs
WorkOf(ph) ==
    IF ph \in {"cpu", "mem"} THEN 1
    ELSE IF ph = "mutex" THEN SHARED_MEMORY_ITERATIONS_MUTEX
    ELSE IF ph = "atomic" THEN SHARED_MEMORY_ITERATIONS_ATOMIC
    ELSE IF ph = "io" THEN IO_READ_ITERATIONS
    ELSE FS_ITERATIONS

\* C1: a parallel measurement's elapsed time is printed, and the next phase is
\* entered, only when exactly num_threads work units exist and every one of
\* them has run to completion.
C1_FanOutBarrier ==
    [][ /\ (\E l \in ParallelTimings : out' = Append(out, Line("timing", l)))
            => /\ DOMAIN unit = 0 .. (num_threads - 1)
               /\ \A t \in DOMAIN unit : unit[t].pc = "done" /\ unit[t].it = WorkOf(pc[1])
        /\ (pc'[1] # pc[1] /\ pc'[1] # "exit")
            => \A t \in DOMAIN unit : unit[t].pc \in {"idle", "done"}
      ]_vars

\* C1 witness: a run with several work units has printed all six parallel timings
C1_Witness == Done /\ num_threads = MaxThreads /\ Count("timing") = 9

\* C2: once resolved, num_threads is max(1, cpus / 2) when --threads is absent
\* and the given value otherwise.
C2_DefaultThreads ==
    pc # << "main", "args" >>
        => num_threads = IF args_threads = NoThreads
                         THEN Max(1, cpus \div 2)
                         ELSE args_threads[1]

\* what a complete run with no failure prints
ExpectedOut ==
    << Line("banner", "--- Starting Benchmark"),
       Line("header", "CPU Bound (Fibonacci)"),
       Line("timing", "Mono-thread"),
       Line("timing", "Multi-thread"),
       Line("header", "Memory Bandwidth (non-shared)"),
       Line("timing", "Mono-thread"),
       Line("timing", "Multi-thread"),
       Line("header", "Memory shared access (mutex)"),
       Line("marker", "Allocating"),
       Line("marker", "Starting"),
       Line("timing", "Memory shared access (mutex)"),
       Line("header", "Memory shared access (atomic)"),
       Line("marker", "Allocating"),
       Line("marker", "Starting"),
       Line("timing", "Memory shared access (atomic)"),
       Line("header", "IO Performance"),
       Line("timing", "Sequential Write (Mono)"),
       Line("timing", "Random Read Direct (Multi)"),
       Line("header", "Filesystem Metadata"),
       Line("timing", "Create/Delete files/thread") >>

\* a timed window is open, or its "Starting" marker is out, only once the
\* phase's setup is complete
SetupBeforeTiming ==
    /\ (pc[1] = "mutex" /\ (timer # None \/ Printed("marker", "Starting")))
           => mutex.allocated /\ mutex.len = SHARED_MEMORY_SIZE
    /\ (pc[1] = "atomic" /\ (timer # None \/ Count("marker") = 4))
           => atomics.allocated /\ atomics.len = num_elements
    /\ timer = "Random Read Direct (Multi)"
           => IsFile(file_path) /\ fs[file_path].len = IO_FILE_SIZE
    /\ timer = "Create/Delete files/thread" => IsDir(base)

\* C3 as stated: the complete run has eight phases and eight timing blocks.
C3_EightBlocks == Done => (Count("timing") = 8 \/ Count("header") = 8)

\* C3 amended: with --threads 4 and no failure the run terminates having printed,
\* in the fixed order, six labelled blocks holding nine timing lines, and no
\* timed window opens before its setup is complete.
C3_EndToEnd ==
    /\ [](SetupBeforeTiming /\ out = SubSeq(ExpectedOut, 1, Len(out)))
    /\ <>(Done /\ out = ExpectedOut /\ Count("header") = 6 /\ Count("timing") = 9)

\* C3 witness: the four-thread run has ended with the full output
C3_Witness == Done /\ num_threads = 4 /\ out = ExpectedOut

Stage2Failure == {"open", "fcntl", "seek", "read", "eof"}

CleanupOps == {"cleanup_file", "cleanup_tree"}

\* C5: after the failure of any operation but a cleanup deletion the run never
\* enters a later phase, prints no further header or timing and never ends
\* normally; the failure of a cleanup deletion changes nothing of that: the run
\* goes on, and a run ends in failure only through a fatal operation.
C5_FatalOrIgnored ==
    /\ [](Done => failed_op = None)
    /\ [](Failed => failed_op # None /\ failed_op \notin CleanupOps)
    /\ [][ failed_op # None =>
             /\ pc'[1] \in {pc[1], "exit"} /\ pc' # << "exit", "done" >>
             /\ out' = out \/ out' = Append(out, Line("error", "fcntl failed")) ]_vars
    /\ [][ ignored' # ignored =>
             /\ failed_op' = failed_op
             /\ pc' # << "exit", "failed" >> ]_vars

\* C5 witness: both cleanup deletions failed and the run ended normally
C5_Witness == Done /\ ignored = CleanupOps /\ num_threads = MaxThreads

Holders == {t \in DOMAIN unit : pc[1] = "mutex" /\ unit[t].pc \in {"locked", "accessed"}}

\* C6: at most one worker holds the lock; a worker touches the buffer only
\* while it is the holder; and each acquisition is followed by exactly one
\* access before the release.
C6_MutualExclusion ==
    /\ [](pc[1] = "mutex" =>
            /\ Cardinality(Holders) <= 1
            /\ Holders # {} => mutex.locked
            /\ \A t \in DOMAIN unit :
                 /\ unit[t].acq = unit[t].it + (IF t \in Holders THEN 1 ELSE 0)
                 /\ unit[t].acc = unit[t].acq - (IF unit[t].pc = "locked" THEN 1 ELSE 0))
    /\ [][ pc[1] = "mutex" /\ pc'[1] = "mutex" =>
             /\ \A t \in DOMAIN unit :
                  unit'[t].acc # unit[t].acc => Holders = {t} /\ mutex.locked
             /\ mutex'.mem # mutex.mem =>
                  \E t \in DOMAIN unit : Holders = {t} /\ unit'[t].acc = unit[t].acc + 1 ]_vars

\* C6 witness: one worker holds the lock in its second iteration while another
\* that has already had it waits
C6_Witness ==
    \E t, u \in DOMAIN unit :
        /\ t # u
        /\ pc[1] = "mutex"
        /\ unit[t].pc = "locked" /\ unit[t].it >= 1
        /\ unit[u].pc = "loop" /\ unit[u].it >= 1

\* C7: every offset of the mutex benchmark lies in [0, SHARED_MEMORY_SIZE - 64)
\* and every index of the atomic benchmark in [0, SHARED_MEMORY_SIZE / 8); both
\* fall inside the buffer, so no access ever fails on its index.
C7_InBounds ==
    /\ failed_op # "index"
    /\ \A t \in DOMAIN unit :
         /\ (pc[1] = "mutex" /\ unit[t].pc \in {"locked", "accessed"})
               => /\ 0 <= unit[t].x /\ unit[t].x < SHARED_MEMORY_SIZE - 64
                  /\ unit[t].x < mutex.len
         /\ (pc[1] = "atomic" /\ unit[t].acc > 0)
               => /\ 0 <= unit[t].x /\ unit[t].x < SHARED_MEMORY_SIZE \div 8
                  /\ unit[t].x < atomics.len

\* C7 witness: a worker has touched the last offset the mutex benchmark can pick
C7_Witness ==
    \E t \in DOMAIN unit :
        /\ pc[1] = "mutex"
        /\ unit[t].pc = "accessed"
        /\ unit[t].x = SHARED_MEMORY_SIZE - 65

\* C8: when stage 1 is over the file holds exactly IO_FILE_SIZE bytes, and every
\* block read in stage 2 starts at a multiple of 4096 and ends inside the file.
C8_WholeFileAlignedReads ==
    /\ (pc[1] = "io" /\ pc[2] \in {"fan", "join", "remove"})
          => IsFile(file_path) /\ fs[file_path].len = IO_FILE_SIZE /\ wcur = IO_FILE_SIZE
    /\ failed_op # "eof"
    /\ \A t \in DOMAIN unit :
         (pc[1] = "io" /\ unit[t].acc > 0)
            => /\ unit[t].x % 4096 = 0
               /\ 0 <= unit[t].x
               /\ unit[t].x + 4096 <= fs[file_path].len

\* C8 witness: a worker has read the last block of the file
C8_Witness ==
    \E t \in DOMAIN unit :
        /\ pc = << "io", "join" >>
        /\ unit[t].acc > 0
        /\ unit[t].x = IO_FILE_SIZE - 4096

FilesIn(t) == {q \in DOMAIN fs : Under(q, thread_dir(t))}

\* C9: a worker's subdirectory never holds more than one file: the file of the
\* current iteration between its creation and its removal, nothing at other
\* times, and nothing once the worker has finished.
C9_AtMostOneFile ==
    \A t \in DOMAIN unit :
        /\ Cardinality(FilesIn(t)) <= 1
        /\ (pc = << "fs", "join" >> /\ unit[t].pc = "remove")
              => FilesIn(t) = {f_path(t, unit[t].it)}
        /\ (pc = << "fs", "join" >> /\ unit[t].pc \in {"queued", "create", "done"})
              => FilesIn(t) = {}

\* C9 witness: a worker holds its last file, the earlier ones being gone
C9_Witness ==
    \E t \in DOMAIN unit :
        /\ pc = << "fs", "join" >>
        /\ unit[t].pc = "remove"
        /\ unit[t].it = FS_ITERATIONS - 1
        /\ FilesIn(t) = {f_path(t, FS_ITERATIONS - 1)}

Subtree(t) == {q \in DOMAIN fs : q = thread_dir(t) \/ Under(q, thread_dir(t))}

\* C10: the work units' subdirectories have pairwise distinct names, each unit
\* that got past create_dir has exactly its own one, and a subdirectory's
\* content changes only in a step of the unit it belongs to.
C10_OwnSubdirectory ==
    /\ [](\A t, u \in DOMAIN unit : t # u => thread_dir(t) # thread_dir(u))
    /\ [](pc = << "fs", "join" >> =>
            /\ {q \in DOMAIN fs : Parent(q) = base}
                  \subseteq {thread_dir(t) : t \in {u \in DOMAIN unit : unit[u].pc # "queued"}}
            /\ \A t \in DOMAIN unit :
                  unit[t].pc \in {"create", "remove", "done"} => IsDir(thread_dir(t)))
    /\ [][ pc = << "fs", "join" >> /\ pc' = << "fs", "join" >> =>
             \A t \in DOMAIN unit :
                 (Subtree(t))' # Subtree(t) => unit'[t] # unit[t] ]_vars

\* C10 witness: two work units hold a file each, in their own subdirectories
C10_Witness ==
    \E t, u \in DOMAIN unit :
        /\ t # u
        /\ pc = << "fs", "join" >>
        /\ unit[t].pc = "remove"
        /\ unit[u].pc = "remove"
====
